---- MODULE Spec2Model ----
(***************************************************************************)
(* Model of mission_planner/ui/main_window.py: the DroneStatusCard widget  *)
(* state and the MissionPlannerWindow update entry points.                 *)
(*                                                                         *)
(* Strings that the code inspects character by character (drone names) are *)
(* sequences of one-character strings.  A float is the dyadic rational     *)
(* n / FloatDen, held as its numerator n, so that every sample is exactly  *)
(* representable in binary and Python's formatting is correctly rounded    *)
(* with exact ties going to the even digit.  An Optional value is the      *)
(* empty sequence (None) or a one-element sequence.                        *)
(***************************************************************************)
EXTENDS Integers, Sequences, FiniteSets, TLC

VARIABLES
    global_status,   \* header QLabel: [text, live]
    freyja_card,     \* DroneStatusCard of Freyja
    cleo_card,       \* DroneStatusCard of Cleo
    last_positions,  \* MissionPlannerWindow._last_positions (dict)
    gps_active,      \* MissionPlannerWindow._gps_active (dict)
    dropped,         \* history: some call named no drone and was ignored
    last_update,     \* history: per drone, arguments of the latest update call
    gps_calls,       \* history: per drone, a set_drone_gps_active call happened
    shown_update     \* history: per drone, an update call happened with GPS active

progVars == <<global_status, freyja_card, cleo_card, last_positions, gps_active>>
histVars == <<dropped, last_update, gps_calls, shown_update>>
vars == <<global_status, freyja_card, cleo_card, last_positions, gps_active,
          dropped, last_update, gps_calls, shown_update>>

(***************************************************************************)
(* Bounds and input domains                                                *)
(***************************************************************************)
MaxSamples == 2

FloatDen == 128

\* (latitude, longitude, altitude_m) numerators over FloatDen
Samples ==
    << <<1660, 9933, 5803>>,
       <<-1, 3, -1>>,
       <<-96, -23040, 127>>,
       <<11520, 0, 32>> >>

Positions == { Samples[i] : i \in 1..MaxSamples }

None == << >>
Some(x) == <<x>>

UpdatedTexts == { None, Some("10:15:00") }

\* drone_name arguments, as character sequences
NameFreyja == <<"F","r","e","y","j","a">>
NameCleoPadded == <<"\t","C","L","E","O"," ">>
NameOdin == <<"O","d","i","n">>
NameSplit == <<"c","l"," ","e","o">>

Names == {NameFreyja, NameCleoPadded, NameOdin, NameSplit}

Drones == {"freyja", "cleo"}

(***************************************************************************)
(* str.strip(), str.lower()                                                *)
(***************************************************************************)
Whitespace == {" ", "\t", "\n", "\r"}

Upper == <<"A","B","C","D","E","F","G","H","I","J","K","L","M",
           "N","O","P","Q","R","S","T","U","V","W","X","Y","Z">>
Lower == <<"a","b","c","d","e","f","g","h","i","j","k","l","m",
           "n","o","p","q","r","s","t","u","v","w","x","y","z">>

RECURSIVE lstrip(_)
lstrip(s) ==
    IF s # << >> /\ Head(s) \in Whitespace THEN lstrip(Tail(s)) ELSE s

RECURSIVE rstrip(_)
rstrip(s) ==
    IF s # << >> /\ s[Len(s)] \in Whitespace
    THEN rstrip(SubSeq(s, 1, Len(s) - 1))
    ELSE s

strip(s) == rstrip(lstrip(s))

lower_char(c) ==
    IF \E i \in 1..26 : Upper[i] = c
    THEN Lower[CHOOSE i \in 1..26 : Upper[i] = c]
    ELSE c

lower(s) == [i \in 1..Len(s) |-> lower_char(s[i])]

RECURSIVE join(_)
join(s) == IF s = << >> THEN "" ELSE Head(s) \o join(Tail(s))

strip_lower(drone_name) == join(lower(strip(drone_name)))

\* drone_name.strip().lower() of every argument in Names, computed once
StripLowerOfNames == [n \in Names |-> strip_lower(n)]

\* name = drone_name.strip().lower()
normalize(drone_name) == StripLowerOfNames[drone_name]

(***************************************************************************)
(* f"{x:.<decimals>f}" for x = n / FloatDen                                *)
(***************************************************************************)
RECURSIVE pow10(_)
pow10(k) == IF k = 0 THEN 1 ELSE 10 * pow10(k - 1)

RECURSIVE zero_pad(_, _)
zero_pad(str, digits) ==
    IF digits <= 0 THEN str ELSE zero_pad("0" \o str, digits - 1)

RECURSIVE num_digits(_)
num_digits(k) == IF k < 10 THEN 1 ELSE 1 + num_digits(k \div 10)

\* Variant: exact ties round away from zero instead of to the even digit.
py_format_f_half_up(n, decimals) ==
    LET mag    == IF n < 0 THEN -n ELSE n
        whole  == mag \div FloatDen
        scaled == (mag % FloatDen) * pow10(decimals)
        q      == scaled \div FloatDen
        r      == scaled % FloatDen
        frac0  == IF 2 * r >= FloatDen THEN q + 1 ELSE q
        carry  == frac0 = pow10(decimals)
        ipart  == IF carry THEN whole + 1 ELSE whole
        frac   == IF carry THEN 0 ELSE frac0
    IN  (IF n < 0 THEN "-" ELSE "")
        \o ToString(ipart) \o "."
        \o zero_pad(ToString(frac), decimals - num_digits(frac))

py_format_f(n, decimals) ==
    LET mag    == IF n < 0 THEN -n ELSE n
        whole  == mag \div FloatDen
        scaled == (mag % FloatDen) * pow10(decimals)
        q      == scaled \div FloatDen
        r      == scaled % FloatDen
        up     == 2 * r > FloatDen \/ (2 * r = FloatDen /\ q % 2 = 1)
        frac0  == IF up THEN q + 1 ELSE q
        carry  == frac0 = pow10(decimals)
        ipart  == IF carry THEN whole + 1 ELSE whole
        frac   == IF carry THEN 0 ELSE frac0
    IN  (IF n < 0 THEN "-" ELSE "")
        \o ToString(ipart) \o "."
        \o zero_pad(ToString(frac), decimals - num_digits(frac))

\* f"{x:.6f}" and f"{x:.1f}" of every coordinate in Samples, computed once
FormatOfSamples ==
    [n \in {Samples[i][k] : i \in 1..Len(Samples), k \in 1..3} |->
        [decimals \in {1, 6} |-> py_format_f(n, decimals)]]

format_f(n, decimals) == FormatOfSamples[n][decimals]

(***************************************************************************)
(* DroneStatusCard                                                         *)
(***************************************************************************)
\* DroneStatusCard.__init__ with the arguments _build_body passes
DroneStatusCard_init(status_text) ==
    [ status_lbl   |-> [text |-> status_text, live |-> FALSE],
      lat_card     |-> "--",
      lon_card     |-> "--",
      alt_card     |-> "--",
      updated_card |-> "--",
      gps_lbl      |-> [text |-> "GPS: --", gps |-> "unknown"] ]

set_position(card, latitude, longitude, altitude_m, updated_text) ==
    [ card EXCEPT
        !.lat_card = IF latitude # None
                     THEN format_f(latitude[1], 6) ELSE @,
        !.lon_card = IF longitude # None
                     THEN format_f(longitude[1], 6) ELSE @,
        !.alt_card = IF altitude_m # None
                     THEN format_f(altitude_m[1], 1) \o " m" ELSE @,
        !.updated_card = IF updated_text # None
                         THEN updated_text[1] ELSE @ ]

\* Variant: going inactive also resets the coordinate tiles.
set_gps_active_clears_tiles(card, active) ==
    IF active = None
    THEN [card EXCEPT !.gps_lbl = [text |-> "GPS: --", gps |-> "unknown"]]
    ELSE [card EXCEPT
            !.gps_lbl =
               [text |-> IF active[1] THEN "GPS: Active" ELSE "GPS: Inactive",
                gps  |-> IF active[1] THEN "active" ELSE "inactive"],
            !.lat_card = IF active[1] THEN @ ELSE "--",
            !.lon_card = IF active[1] THEN @ ELSE "--",
            !.alt_card = IF active[1] THEN @ ELSE "--"]

\* Variant: "if not active" in place of "if active is None".
set_gps_active_falsy_unknown(card, active) ==
    IF active = None \/ ~active[1]
    THEN [card EXCEPT !.gps_lbl = [text |-> "GPS: --", gps |-> "unknown"]]
    ELSE [card EXCEPT !.gps_lbl = [text |-> "GPS: Active", gps |-> "active"]]

\* active is Optional[bool]
set_gps_active(card, active) ==
    IF active = None
    THEN [card EXCEPT !.gps_lbl = [text |-> "GPS: --", gps |-> "unknown"]]
    ELSE [card EXCEPT !.gps_lbl =
            [text |-> IF active[1] THEN "GPS: Active" ELSE "GPS: Inactive",
             gps  |-> IF active[1] THEN "active" ELSE "inactive"]]

\* Variant: a call with the value already shown flips the label.
set_live_toggle(card, live) ==
    LET shown == IF card.status_lbl.live = live THEN ~live ELSE live IN
    [card EXCEPT !.status_lbl =
        [text |-> IF shown THEN "Status: Live" ELSE "Status: Offline",
         live |-> shown]]

set_live(card, live) ==
    [card EXCEPT !.status_lbl =
        [text |-> IF live THEN "Status: Live" ELSE "Status: Offline",
         live |-> live]]

(***************************************************************************)
(* MissionPlannerWindow                                                    *)
(***************************************************************************)
\* dict.get(key, default)
dict_get(d, key, default) == IF key \in DOMAIN d THEN d[key] ELSE default

\* d[key] = value
dict_set(d, key, value) ==
    [k \in (DOMAIN d) \cup {key} |-> IF k = key THEN value ELSE d[k]]

MissionPlannerWindow_init ==
    /\ global_status = [text |-> "Status: Offline", live |-> FALSE]
    /\ freyja_card = DroneStatusCard_init("Status: Offline")
    /\ cleo_card = DroneStatusCard_init("Status: Offline")
    /\ last_positions = << >>
    /\ gps_active = [d \in Drones |-> FALSE]

\* Variant: the global status is pushed down to both cards.
set_global_live_sets_cards(live) ==
    /\ global_status' =
          [text |-> IF live THEN "Status: Live" ELSE "Status: Offline",
           live |-> live]
    /\ freyja_card' = set_live(freyja_card, live)
    /\ cleo_card' = set_live(cleo_card, live)
    /\ UNCHANGED <<last_positions, gps_active>>

set_global_live(live) ==
    /\ global_status' =
          [text |-> IF live THEN "Status: Live" ELSE "Status: Offline",
           live |-> live]
    /\ UNCHANGED <<freyja_card, cleo_card, last_positions, gps_active>>

\* Variant: "else" in place of 'elif name == "cleo"'.
set_drone_live_else_cleo(drone_name, live) ==
    LET name == normalize(drone_name) IN
    /\ freyja_card' = IF name = "freyja"
                      THEN set_live(freyja_card, live) ELSE freyja_card
    /\ cleo_card' = IF name # "freyja"
                    THEN set_live(cleo_card, live) ELSE cleo_card
    /\ UNCHANGED <<global_status, last_positions, gps_active>>

set_drone_live(drone_name, live) ==
    LET name == normalize(drone_name) IN
    /\ freyja_card' = IF name = "freyja"
                      THEN set_live(freyja_card, live) ELSE freyja_card
    /\ cleo_card' = IF name # "freyja" /\ name = "cleo"
                    THEN set_live(cleo_card, live) ELSE cleo_card
    /\ UNCHANGED <<global_status, last_positions, gps_active>>

\* Variant: the GPS gate is missing.
update_drone_position_ungated(drone_name, latitude, longitude, altitude_m, updated_text) ==
    LET name == normalize(drone_name)
        curr == <<latitude, longitude, altitude_m>>
    IN
    IF name = "freyja" \/ name = "cleo"
    THEN /\ freyja_card' =
              IF name = "freyja"
              THEN set_position(freyja_card, Some(latitude), Some(longitude),
                                Some(altitude_m), updated_text)
              ELSE freyja_card
         /\ cleo_card' =
              IF name # "freyja"
              THEN set_position(cleo_card, Some(latitude), Some(longitude),
                                Some(altitude_m), updated_text)
              ELSE cleo_card
         /\ last_positions' = dict_set(last_positions, name, curr)
         /\ UNCHANGED <<global_status, gps_active>>
    ELSE UNCHANGED progVars

\* Variant: the GPS gate is inverted.
update_drone_position_gate_inverted(drone_name, latitude, longitude, altitude_m, updated_text) ==
    LET name == normalize(drone_name)
        gps  == ~dict_get(gps_active, name, FALSE)
        curr == <<latitude, longitude, altitude_m>>
    IN
    IF name = "freyja" \/ name = "cleo"
    THEN /\ freyja_card' =
              IF name = "freyja" /\ gps
              THEN set_position(freyja_card, Some(latitude), Some(longitude),
                                Some(altitude_m), updated_text)
              ELSE freyja_card
         /\ cleo_card' =
              IF name # "freyja" /\ gps
              THEN set_position(cleo_card, Some(latitude), Some(longitude),
                                Some(altitude_m), updated_text)
              ELSE cleo_card
         /\ last_positions' = dict_set(last_positions, name, curr)
         /\ UNCHANGED <<global_status, gps_active>>
    ELSE UNCHANGED progVars

\* Variant: the cache is written inside the GPS gate.
update_drone_position_cache_when_active(drone_name, latitude, longitude, altitude_m, updated_text) ==
    LET name == normalize(drone_name)
        gps  == dict_get(gps_active, name, FALSE)
        curr == <<latitude, longitude, altitude_m>>
    IN
    IF name = "freyja" \/ name = "cleo"
    THEN /\ freyja_card' =
              IF name = "freyja" /\ gps
              THEN set_position(freyja_card, Some(latitude), Some(longitude),
                                Some(altitude_m), updated_text)
              ELSE freyja_card
         /\ cleo_card' =
              IF name # "freyja" /\ gps
              THEN set_position(cleo_card, Some(latitude), Some(longitude),
                                Some(altitude_m), updated_text)
              ELSE cleo_card
         /\ last_positions' =
              IF gps THEN dict_set(last_positions, name, curr)
              ELSE last_positions
         /\ UNCHANGED <<global_status, gps_active>>
    ELSE UNCHANGED progVars

update_drone_position(drone_name, latitude, longitude, altitude_m, updated_text) ==
    LET name == normalize(drone_name)
        gps  == dict_get(gps_active, name, FALSE)
        curr == <<latitude, longitude, altitude_m>>
    IN
    IF name = "freyja" \/ name = "cleo"
    THEN /\ freyja_card' =
              IF name = "freyja" /\ gps
              THEN set_position(freyja_card, Some(latitude), Some(longitude),
                                Some(altitude_m), updated_text)
              ELSE freyja_card
         /\ cleo_card' =
              IF name # "freyja" /\ gps
              THEN set_position(cleo_card, Some(latitude), Some(longitude),
                                Some(altitude_m), updated_text)
              ELSE cleo_card
         /\ last_positions' = dict_set(last_positions, name, curr)
         /\ UNCHANGED <<global_status, gps_active>>
    ELSE UNCHANGED progVars

\* Variant: the new state is forwarded to both cards.
set_drone_gps_active_both_cards(drone_name, active) ==
    LET name == normalize(drone_name) IN
    IF name \notin {"freyja", "cleo"}
    THEN UNCHANGED progVars
    ELSE /\ gps_active' = dict_set(gps_active, name, active)
         /\ freyja_card' = set_gps_active(freyja_card, Some(active))
         /\ cleo_card' = set_gps_active(cleo_card, Some(active))
         /\ UNCHANGED <<global_status, last_positions>>

set_drone_gps_active(drone_name, active) ==
    LET name == normalize(drone_name) IN
    IF name \notin {"freyja", "cleo"}
    THEN UNCHANGED progVars
    ELSE /\ gps_active' = dict_set(gps_active, name, active)
         /\ freyja_card' = IF name = "freyja"
                           THEN set_gps_active(freyja_card, Some(active))
                           ELSE freyja_card
         /\ cleo_card' = IF name # "freyja" /\ name = "cleo"
                         THEN set_gps_active(cleo_card, Some(active))
                         ELSE cleo_card
         /\ UNCHANGED <<global_status, last_positions>>

(***************************************************************************)
(* The callers: one action per public method, with the history variables   *)
(***************************************************************************)
Init ==
    /\ MissionPlannerWindow_init
    /\ dropped = FALSE
    /\ last_update = [d \in Drones |-> None]
    /\ gps_calls = [d \in Drones |-> FALSE]
    /\ shown_update = [d \in Drones |-> FALSE]

Dropped(drone_name) == dropped \/ normalize(drone_name) \notin Drones

SetGlobalLive ==
    \E live \in BOOLEAN :
        /\ set_global_live(live)
        /\ UNCHANGED histVars

SetDroneLive ==
    \E drone_name \in Names, live \in BOOLEAN :
        /\ set_drone_live(drone_name, live)
        /\ dropped' = Dropped(drone_name)
        /\ UNCHANGED <<last_update, gps_calls, shown_update>>

UpdateDronePosition ==
    \E drone_name \in Names, p \in Positions, updated_text \in UpdatedTexts :
        LET name == normalize(drone_name) IN
        /\ update_drone_position(drone_name, p[1], p[2], p[3], updated_text)
        /\ dropped' = Dropped(drone_name)
        /\ last_update' =
              IF name \in Drones
              THEN [last_update EXCEPT
                      ![name] = Some([pos |-> p, gps |-> gps_active[name]])]
              ELSE last_update
        /\ shown_update' =
              IF name \in Drones
              THEN [shown_update EXCEPT ![name] = @ \/ gps_active[name]]
              ELSE shown_update
        /\ UNCHANGED gps_calls

SetDroneGpsActive ==
    \E drone_name \in Names, active \in BOOLEAN :
        LET name == normalize(drone_name) IN
        /\ set_drone_gps_active(drone_name, active)
        /\ dropped' = Dropped(drone_name)
        /\ gps_calls' =
              IF name \in Drones
              THEN [gps_calls EXCEPT ![name] = TRUE]
              ELSE gps_calls
        /\ UNCHANGED <<last_update, shown_update>>

Next ==
    \/ SetGlobalLive
    \/ SetDroneLive
    \/ UpdateDronePosition
    \/ SetDroneGpsActive

Spec == Init /\ [][Next]_vars

(***************************************************************************)
(* Vocabulary of the properties                                            *)
(***************************************************************************)
Card(d) == IF d = "freyja" THEN freyja_card ELSE cleo_card

PositionTiles(card) == <<card.lat_card, card.lon_card, card.alt_card>>

AllTiles(card) ==
    <<card.lat_card, card.lon_card, card.alt_card, card.updated_card>>

Placeholder == <<"--", "--", "--">>

CacheEntry(d) ==
    IF d \in DOMAIN last_positions THEN Some(last_positions[d]) ELSE None

DroneState(d) == <<Card(d), gps_active[d], CacheEntry(d)>>

LiveLabel(live) ==
    [text |-> IF live THEN "Status: Live" ELSE "Status: Offline", live |-> live]

\* The drone a name designates once trimmed and lowercased, read off the
\* names themselves: "Freyja" is freyja, "\tCLEO " is cleo, "Odin" and
\* "cl eo" are no drone.
Resolves(n, d) ==
    \/ n = NameFreyja /\ d = "freyja"
    \/ n = NameCleoPadded /\ d = "cleo"

Unrecognised(n) == \A d \in Drones : ~Resolves(n, d)

\* What Python prints for the samples: f"{lat:.6f}", f"{lon:.6f}",
\* f"{alt:.1f} m" of Samples[i] / FloatDen.
ExpectedTiles ==
    << <<"12.968750", "77.601562", "45.3 m">>,
       <<"-0.007812", "0.023438", "-0.0 m">>,
       <<"-0.750000", "-180.000000", "1.0 m">>,
       <<"90.000000", "0.000000", "0.2 m">> >>

SampleIndex(p) == CHOOSE i \in 1..Len(Samples) : Samples[i] = p

\* A step of update_drone_position(n, ...) with some sample and some text
UpdateStep(n) ==
    \E p \in Positions, t \in UpdatedTexts :
        update_drone_position(n, p[1], p[2], p[3], t)

(***************************************************************************)
(* C1: an update_drone_position call for a drone whose GPS-active flag is  *)
(* false leaves that drone's Latitude, Longitude, Altitude and Updated     *)
(* tiles as they were, whatever the values and however often it is called. *)
(***************************************************************************)
C1_InactiveGpsKeepsTiles ==
    [][\A n \in Names, d \in Drones :
          (Resolves(n, d) /\ ~gps_active[d] /\ UpdateStep(n))
             => AllTiles(Card(d))' = AllTiles(Card(d))]_vars

\* Freyja showed a position, then received another one with GPS inactive:
\* the tiles still show the older position.
C1_Witness ==
    /\ shown_update["freyja"]
    /\ last_update["freyja"] # None
    /\ ~last_update["freyja"][1].gps
    /\ PositionTiles(freyja_card) #
          ExpectedTiles[SampleIndex(last_update["freyja"][1].pos)]

(***************************************************************************)
(* C2: for a name that is neither freyja nor cleo after trimming and       *)
(* lowercasing, set_drone_live, set_drone_gps_active and                   *)
(* update_drone_position change nothing: cards, GPS flags, cache (no entry *)
(* is added) and global status all stay as they were.                      *)
(***************************************************************************)
C2_UnknownNameIsNoOp ==
    [][\A n \in Names :
          Unrecognised(n) =>
             /\ \A v \in BOOLEAN :
                   (set_drone_live(n, v) \/ set_drone_gps_active(n, v))
                      => UNCHANGED progVars
             /\ UpdateStep(n) => UNCHANGED progVars
             /\ DOMAIN last_positions' \subseteq Drones]_vars

\* A call naming no drone was ignored while the window was in use.
C2_Witness ==
    /\ dropped
    /\ shown_update["cleo"]
    /\ freyja_card.status_lbl.live
    /\ DOMAIN last_positions = {"cleo"}

(***************************************************************************)
(* C3: while a recognised drone's GPS is active (after                     *)
(* set_drone_gps_active(name, true)), update_drone_position for it sets    *)
(* its Latitude, Longitude and Altitude tiles to the values formatted with *)
(* 6, 6 and 1 decimals (altitude followed by " m"); the Updated tile keeps *)
(* its text when updated_text is omitted and is set to it otherwise; no    *)
(* other displayed state and no GPS flag changes.                          *)
(***************************************************************************)
C3_ActiveGpsShowsFormattedPosition ==
    [][\A n \in Names, d \in Drones, i \in 1..MaxSamples, t \in UpdatedTexts :
          (/\ Resolves(n, d)
           /\ gps_active[d]
           /\ update_drone_position(n, Samples[i][1], Samples[i][2],
                                    Samples[i][3], t))
             => /\ Card(d)' =
                     [Card(d) EXCEPT
                        !.lat_card = ExpectedTiles[i][1],
                        !.lon_card = ExpectedTiles[i][2],
                        !.alt_card = ExpectedTiles[i][3],
                        !.updated_card = IF t = None THEN @ ELSE t[1]]
                /\ \A o \in Drones \ {d} : Card(o)' = Card(o)
                /\ UNCHANGED <<global_status, gps_active>>]_vars

\* Freyja shows a position received without text, Cleo one received with a
\* text, both with GPS active at the time.
C3_Witness ==
    /\ last_update["freyja"] # None
    /\ last_update["freyja"][1].gps
    /\ PositionTiles(freyja_card) =
          ExpectedTiles[SampleIndex(last_update["freyja"][1].pos)]
    /\ freyja_card.updated_card = "--"
    /\ last_update["cleo"] # None
    /\ last_update["cleo"][1].gps
    /\ PositionTiles(cleo_card) =
          ExpectedTiles[SampleIndex(last_update["cleo"][1].pos)]
    /\ cleo_card.updated_card = "10:15:00"
    /\ last_update["cleo"][1].pos # last_update["freyja"][1].pos

(***************************************************************************)
(* C4: the last-position cache entry of a drone is the (lat, lon, alt) of  *)
(* the most recent update_drone_position call for it, whether or not its   *)
(* GPS was active then, and is absent only if no such call was made.       *)
(***************************************************************************)
C4_CacheIsLatestUpdate ==
    \A d \in Drones :
        CacheEntry(d) =
            IF last_update[d] = None THEN None
            ELSE Some(last_update[d][1].pos)

\* Freyja's latest update came with GPS inactive and after an earlier,
\* displayed one with other values; Cleo never received an update.
C4_Witness ==
    /\ last_update["freyja"] # None
    /\ ~last_update["freyja"][1].gps
    /\ shown_update["freyja"]
    /\ "freyja" \in DOMAIN last_positions
    /\ ExpectedTiles[SampleIndex(last_positions["freyja"])] #
          PositionTiles(freyja_card)
    /\ "cleo" \notin DOMAIN last_positions

(***************************************************************************)
(* C5: a drone's Latitude, Longitude and Altitude tiles change only in an  *)
(* update_drone_position step for it taken while its GPS-active flag is    *)
(* true; set_drone_gps_active(name, false) never changes them, and tiles   *)
(* that show values never go back to the "--" placeholder.                 *)
(***************************************************************************)
C5_PositionChangesOnlyOnActiveUpdate ==
    [][\A d \in Drones :
          /\ PositionTiles(Card(d))' # PositionTiles(Card(d))
                => /\ gps_active[d]
                   /\ \E n \in Names : Resolves(n, d) /\ UpdateStep(n)
          /\ \A n \in Names :
                set_drone_gps_active(n, FALSE)
                   => PositionTiles(Card(d))' = PositionTiles(Card(d))
          /\ \A k \in 1..3 :
                PositionTiles(Card(d))[k] # "--"
                   => PositionTiles(Card(d))'[k] # "--"]_vars

\* Cleo's GPS was switched off after a position was displayed: the card
\* says Inactive and still shows the coordinates.
C5_Witness ==
    /\ shown_update["cleo"]
    /\ gps_calls["cleo"]
    /\ ~gps_active["cleo"]
    /\ cleo_card.gps_lbl.text = "GPS: Inactive"
    /\ \A k \in 1..3 : PositionTiles(cleo_card)[k] # "--"

(***************************************************************************)
(* C6 as stated: a drone's tiles show values only if its GPS was active at *)
(* the time of the most recent update_drone_position call for it.          *)
(***************************************************************************)
C6_ShownOnlyIfLatestUpdateActive ==
    \A d \in Drones :
        PositionTiles(Card(d)) # Placeholder
           => last_update[d] # None /\ last_update[d][1].gps

(***************************************************************************)
(* C6 amended: a drone's tiles show values only if its GPS was active at   *)
(* the time of some update_drone_position call for it (the most recent     *)
(* call may have come with GPS inactive and left the tiles as they were).  *)
(***************************************************************************)
C6_ShownOnlyIfSomeUpdateActive ==
    \A d \in Drones :
        PositionTiles(Card(d)) # Placeholder => shown_update[d]

\* Cleo still shows the values of an update received with GPS active after
\* a later update came with GPS inactive; Freyja received updates only with
\* GPS inactive and shows "--".
C6_Witness ==
    /\ shown_update["cleo"]
    /\ ~last_update["cleo"][1].gps
    /\ PositionTiles(cleo_card) # Placeholder
    /\ last_update["freyja"] # None
    /\ ~shown_update["freyja"]
    /\ PositionTiles(freyja_card) = Placeholder

(***************************************************************************)
(* C7: a card's GPS indicator reads "GPS: --" exactly while no             *)
(* set_drone_gps_active call for that drone has happened (the window's     *)
(* flag being false meanwhile); afterwards it reads Active exactly when    *)
(* the window's flag is true and Inactive exactly when it is false.        *)
(***************************************************************************)
C7_GpsIndicatorFollowsFlag ==
    \A d \in Drones :
        /\ (Card(d).gps_lbl = [text |-> "GPS: --", gps |-> "unknown"])
              <=> ~gps_calls[d]
        /\ ~gps_calls[d] => ~gps_active[d]
        /\ gps_calls[d] =>
              Card(d).gps_lbl =
                 IF gps_active[d]
                 THEN [text |-> "GPS: Active", gps |-> "active"]
                 ELSE [text |-> "GPS: Inactive", gps |-> "inactive"]

\* Freyja's GPS was reported inactive: indicator Inactive, flag false; Cleo
\* had no report: indicator unknown, flag false as well.
C7_Witness ==
    /\ gps_calls["freyja"]
    /\ ~gps_active["freyja"]
    /\ freyja_card.gps_lbl.text = "GPS: Inactive"
    /\ ~gps_calls["cleo"]
    /\ ~gps_active["cleo"]
    /\ cleo_card.gps_lbl.text = "GPS: --"

(***************************************************************************)
(* C8: set_live is idempotent and memoryless: the label after              *)
(* set_live(v), set_drone_live(name, v) or set_global_live(v) is the one   *)
(* of v whatever it was before, and a second call with the same v changes  *)
(* nothing.                                                                *)
(***************************************************************************)
C8_SetLiveIdempotent ==
    [][\A v \in BOOLEAN :
          /\ \A d \in Drones :
                /\ set_live(Card(d), v).status_lbl = LiveLabel(v)
                /\ set_live(set_live(Card(d), v), v) = set_live(Card(d), v)
          /\ set_global_live(v)
                => /\ global_status' = LiveLabel(v)
                   /\ global_status = LiveLabel(v) => UNCHANGED progVars
          /\ \A n \in Names, d \in Drones :
                (Resolves(n, d) /\ set_drone_live(n, v))
                   => /\ Card(d)'.status_lbl = LiveLabel(v)
                      /\ Card(d).status_lbl = LiveLabel(v)
                            => UNCHANGED progVars]_vars

\* Freyja and the window were set live, Cleo was set live and offline again.
C8_Witness ==
    /\ freyja_card.status_lbl = LiveLabel(TRUE)
    /\ global_status = LiveLabel(TRUE)
    /\ cleo_card.status_lbl = LiveLabel(FALSE)
    /\ gps_active["cleo"]

(***************************************************************************)
(* C9: a set_drone_live, set_drone_gps_active or update_drone_position     *)
(* call for one drone leaves the other drone's live label, GPS indicator,  *)
(* GPS-active flag, tiles and cache entry unchanged.                       *)
(***************************************************************************)
C9_DronesIndependent ==
    [][\A n \in Names, d \in Drones, o \in Drones :
          (d # o /\ Resolves(n, d))
             => ((\/ \E v \in BOOLEAN : set_drone_live(n, v)
                  \/ \E v \in BOOLEAN : set_drone_gps_active(n, v)
                  \/ UpdateStep(n))
                    => DroneState(o)' = DroneState(o))]_vars

\* Every kind of call was made for Freyja and none took effect on Cleo.
C9_Witness ==
    /\ freyja_card.status_lbl.live
    /\ gps_active["freyja"]
    /\ PositionTiles(freyja_card) # Placeholder
    /\ freyja_card.updated_card # "--"
    /\ "freyja" \in DOMAIN last_positions
    /\ DroneState("cleo") =
          <<DroneStatusCard_init("Status: Offline"), FALSE, None>>

(***************************************************************************)
(* C10: the global status starts Offline, changes only in set_global_live  *)
(* (to the value passed), and is untouched by the per-drone calls;         *)
(* set_global_live changes no card, no GPS flag and no cache entry.        *)
(***************************************************************************)
C10_GlobalStatusIndependent ==
    /\ global_status = LiveLabel(FALSE)
    /\ [][/\ global_status' # global_status
                => \E v \in BOOLEAN : set_global_live(v)
          /\ \A v \in BOOLEAN :
                set_global_live(v)
                   => /\ global_status' = LiveLabel(v)
                      /\ UNCHANGED <<freyja_card, cleo_card, gps_active,
                                     last_positions>>
          /\ \A n \in Names :
                (\/ \E v \in BOOLEAN : set_drone_live(n, v)
                 \/ \E v \in BOOLEAN : set_drone_gps_active(n, v)
                 \/ UpdateStep(n))
                   => UNCHANGED global_status]_vars

\* Both drones are live and show positions while the window, set live and
\* then offline again, says Offline.
C10_Witness ==
    /\ global_status = LiveLabel(FALSE)
    /\ freyja_card.status_lbl = LiveLabel(TRUE)
    /\ cleo_card.status_lbl = LiveLabel(TRUE)
    /\ shown_update["freyja"]
    /\ shown_update["cleo"]

====
